---- MODULE Spec2Model ----
(***************************************************************************)
(* GraphOrama backend: GraphService (graph.service.ts).                    *)
(*                                                                         *)
(* The service ingests a directed graph of service nodes, indexes the      *)
(* nodes by role, precomputes bounded reachability per seed node and       *)
(* answers filtered sub-graph queries.  It has two storage backends: a     *)
(* Redis key space (string keys built by concatenation, sets of strings,   *)
(* one hash per node) and a set of in-process maps holding precomputed     *)
(* routes.  Keys are modelled as the very strings the code builds, so      *)
(* that two keys which coincide in Redis coincide in the model.            *)
(*                                                                         *)
(* Modelling conventions:                                                  *)
(*  - an input graph is a record [nodes, edges]; nodes is a set of node    *)
(*    records with pairwise distinct names, edges a set of [from, to]      *)
(*    records where to is the tuple of targets (a plain string target of   *)
(*    the source is the 1-tuple, as after Array.isArray(...) ? .. : [..]); *)
(*  - an absent optional field (vulnerabilities, metadata) is the empty    *)
(*    collection, which is what every use in the code defaults it to;      *)
(*  - a JavaScript Map is a function with a growing domain, a Set a set;   *)
(*  - JSON.stringify(x) is the record [json |-> x], JSON.parse its         *)
(*    inverse on such records;                                             *)
(*  - the opaque provenance fields language and path are left out.         *)
(***************************************************************************)
EXTENDS Integers, Sequences, FiniteSets, TLC

VARIABLES
    moduleInit,            \* onModuleInit has run
    useRedis,              \* GraphService.useRedis
    redis,                 \* GraphService.redis: "null" or "client"
    rsets,                 \* Redis set keys: set of <<key, member>>
    rhash,                 \* Redis hash keys: key -> hash record
    nodes,                 \* in-memory Map name -> ServiceNode
    adjacencyList,         \* Map name -> Set of names
    reverseAdjacencyList,  \* Map name -> Set of names
    publicNodes,
    sinkNodes,
    vulnerableNodes,
    nodesByKind,           \* Map kind -> Set of names
    publicPaths,           \* Map seed -> routes
    sinkPaths,
    vulnerablePaths,
    pc,                    \* per loadGraph call: the await it is suspended at
    ldata,                 \* per loadGraph call: its argument
    lkeys,                 \* per loadGraph call: result of redis.keys('graph:*')
    loaded,                \* argument of the loadGraph call that completed last
    replaced,              \* node names of the graph that this last load replaced
    loads,                 \* number of completed loadGraph calls
    overlapped,            \* some loadGraph call started while another was in progress
    probed,                \* what isAvailable() returned in onModuleInit: "none", "up", "down"
    lastLoad,              \* how the loadGraph call that ended last ended: "none", "ok",
                           \* "typeError" (thrown by the handler), "rejected" (by Redis)
    redisUp,               \* environment: the Redis server answers the client
    times,                 \* RedisService client: consecutive failed connection attempts
    conn,                  \* RedisService client: "connecting", "wait", "ready", "end"
    retryDelay,            \* RedisService client: delay returned by the last retryStrategy call
    ingest,                \* ingestion of one payload, in batches: see IngestIdle
    trav                   \* one traversal of the precomputation: see TraverseIdle

memVars == <<nodes, adjacencyList, reverseAdjacencyList, publicNodes, sinkNodes,
             vulnerableNodes, nodesByKind, publicPaths, sinkPaths, vulnerablePaths>>
redisVars == <<rsets, rhash>>
callVars == <<pc, ldata, lkeys>>
histVars == <<loaded, replaced, loads, overlapped>>
clientVars == <<times, conn, retryDelay>>
envVars == <<redisUp, times, conn, retryDelay>>
stepVars == <<ingest, trav>>
vars == <<moduleInit, useRedis, redis, rsets, rhash, nodes, adjacencyList,
          reverseAdjacencyList, publicNodes, sinkNodes, vulnerableNodes, nodesByKind,
          publicPaths, sinkPaths, vulnerablePaths, pc, ldata, lkeys, loaded, replaced,
          loads, overlapped, probed, lastLoad, redisUp, times, conn, retryDelay,
          ingest, trav>>

(***************************************************************************)
(* Bounds and input universe                                               *)
(***************************************************************************)
MaxNodes == 2
MaxEdges == 2
MaxLoads == 2
MaxRetries == 30
MaxChunks == 2

Names == {"a", "b", "all"}

EmptyMap == [x \in {} |-> {}]

MapPut(m, k, v) == [x \in (DOMAIN m) \cup {k} |-> IF x = k THEN v ELSE m[x]]

MapGet(m, k, default) == IF k \in DOMAIN m THEN m[k] ELSE default

RECURSIVE SetToSeq(_)
SetToSeq(S) ==
    IF S = {} THEN <<>>
    ELSE LET x == CHOOSE y \in S : TRUE IN <<x>> \o SetToSeq(S \ {x})

RECURSIVE SubsetsUpTo(_, _)
SubsetsUpTo(S, k) ==
    IF k = 0 THEN {{}}
    ELSE LET P == SubsetsUpTo(S, k - 1) IN P \cup {p \cup {x} : p \in P, x \in S}

Range(s) == {s[i] : i \in DOMAIN s}

Vuln79 == [severity |-> "high", metadata |-> {<<"cwe", "79">>}]

NodeShapes ==
    { [kind |-> "service", publicExposed |-> FALSE, vulnerabilities |-> <<>>, metadata |-> {}],
      [kind |-> "service", publicExposed |-> TRUE,  vulnerabilities |-> <<>>, metadata |-> {}],
      [kind |-> "rds",     publicExposed |-> FALSE, vulnerabilities |-> <<>>, metadata |-> {}],
      [kind |-> "service", publicExposed |-> FALSE, vulnerabilities |-> <<Vuln79>>, metadata |-> {}],
      [kind |-> "public",  publicExposed |-> FALSE, vulnerabilities |-> <<>>, metadata |-> {}],
      [kind |-> "service", publicExposed |-> FALSE, vulnerabilities |-> <<>>,
       metadata |-> {<<"env", "prod">>}],
      [kind |-> "rds",     publicExposed |-> TRUE,  vulnerabilities |-> <<Vuln79>>,
       metadata |-> {<<"env", "prod">>}] }

MkNode(n, sh) ==
    [name |-> n, kind |-> sh.kind, publicExposed |-> sh.publicExposed,
     vulnerabilities |-> sh.vulnerabilities, metadata |-> sh.metadata]

EdgeChoices ==
    {[from |-> f, to |-> <<t>>] : f \in Names, t \in Names}
    \cup {[from |-> f, to |-> <<"a", "b">>] : f \in Names}

NodeSets ==
    UNION {{ {MkNode(n, f[n]) : n \in S} : f \in [S -> NodeShapes] } :
           S \in SubsetsUpTo(Names, MaxNodes)}

Graphs == {[nodes |-> N, edges |-> E] : N \in NodeSets, E \in SubsetsUpTo(EdgeChoices, MaxEdges)}

EmptyGraph == [nodes |-> {}, edges |-> {}]

\* Edge.to is a string or an array of strings; every target is one directed edge.
ExpandedEdges(data) == UNION {{<<e.from, t>> : t \in Range(e.to)} : e \in data.edges}

DeclaredNames(data) == {n.name : n \in data.nodes}

(***************************************************************************)
(* Helpers shared by both backends                                         *)
(***************************************************************************)
isSinkNode(node) ==
    node.kind = "rds" \/ node.kind = "sqs" \/ node.kind = "sql" \/ node.kind = "database"

hasActiveFilters(filters) ==
    filters.startsWithPublic \/ filters.endsInSink \/ filters.hasVulnerability
    \/ filters.metadataFilters.present

DefaultMaxDepth == 10
ContextMaxDepth == 5

(***************************************************************************)
(* Redis backend: the key space                                            *)
(***************************************************************************)
SMembers(sets, key) == {p[2] : p \in {q \in sets : q[1] = key}}

SCard(sets, key) == Cardinality(SMembers(sets, key))

SIsMember(sets, key, member) == <<key, member>> \in sets

SUnion(sets, keys) == UNION {SMembers(sets, k) : k \in keys}

\* redis.keys('graph:*'): every key the service writes starts with graph:
RedisKeys(sets, hash) == {p[1] : p \in sets} \cup DOMAIN hash

\* the del command is never queued
DelSetsNotQueued(sets, keys) == sets

DelSets(sets, keys) == {p \in sets : p[1] \notin keys}

DelHash(hash, keys) == [k \in (DOMAIN hash) \ keys |-> hash[k]]

\* every (key, value) pair of the node's metadata and of its vulnerabilities' metadata
IndexedMetadata(node) ==
    node.metadata \cup UNION {node.vulnerabilities[i].metadata : i \in DOMAIN node.vulnerabilities}

\* the sadd commands queued for one node (part_006 lines 91-130)
NodeSetCommands(node) ==
    {<<"graph:nodes:" \o node.kind, node.name>>, <<"graph:nodes:all", node.name>>}
    \cup (IF node.publicExposed THEN {<<"graph:nodes:public", node.name>>} ELSE {})
    \cup (IF isSinkNode(node) THEN {<<"graph:nodes:sinks", node.name>>} ELSE {})
    \cup (IF Len(node.vulnerabilities) > 0 THEN {<<"graph:nodes:vulnerable", node.name>>} ELSE {})
    \cup UNION {{<<"graph:nodes:meta:" \o m[1] \o ":" \o m[2], node.name>>,
                 <<"graph:meta:keys", m[1] \o ":" \o m[2]>>} : m \in IndexedMetadata(node)}

\* the hset command queued for one node (part_006 lines 80-88)
NodeHash(node) ==
    [name |-> node.name, kind |-> node.kind,
     publicExposed |-> IF node.publicExposed THEN "1" ELSE "0",
     vulnerabilities |-> [json |-> node.vulnerabilities],
     metadata |-> [json |-> node.metadata]]

\* the sadd commands queued for the edges (part_006 lines 134-144)
EdgeSetCommands(data) ==
    UNION {{<<"graph:edges:" \o e[1], e[2]>>,
            <<"graph:reverse:" \o e[2], e[1]>>,
            <<"graph:edges:all", e[1] \o "->" \o e[2]>>} : e \in ExpandedEdges(data)}

\* pipeline.exec(): del of the snapshotted keys first, then the queued writes in order
PipelineExecSets(sets, keys, data) ==
    DelSets(sets, keys) \cup UNION {NodeSetCommands(n) : n \in data.nodes}
                        \cup EdgeSetCommands(data)

PipelineExecHash(hash, keys, data) ==
    LET kept == DelHash(hash, keys)
        new  == {"graph:node:" \o n.name : n \in data.nodes}
        nodeOf(k) == CHOOSE n \in data.nodes : "graph:node:" \o n.name = k
    IN [k \in (DOMAIN kept) \cup new |-> IF k \in new THEN NodeHash(nodeOf(k)) ELSE kept[k]]

\* pipeline.exec() resolves with one [err, result] entry per queued command; the entries
\* are not looked at (line 146), so commands that returned an error are simply missing:
\* here the sadd commands of the nodes, or the sadd commands of the edges
PipelineExecSetsWithErrors(sets, keys, data, lost) ==
    DelSets(sets, keys)
    \cup (IF lost = "nodes" THEN {} ELSE UNION {NodeSetCommands(n) : n \in data.nodes})
    \cup (IF lost = "edges" THEN {} ELSE EdgeSetCommands(data))

RECURSIVE bfsLoop(_, _, _, _, _)
bfsLoop(sets, visited, queue, direction, maxDepth) ==
    IF queue = <<>> THEN visited
    ELSE LET node  == queue[1][1]
             depth == queue[1][2]
         IN IF depth >= maxDepth
            THEN bfsLoop(sets, visited, Tail(queue), direction, maxDepth)
            ELSE LET neighbors == IF direction = "forward"
                                  THEN SMembers(sets, "graph:edges:" \o node)
                                  ELSE SMembers(sets, "graph:reverse:" \o node)
                     fresh == neighbors \ visited
                     pushed == [i \in 1..Cardinality(fresh) |->
                                   <<SetToSeq(fresh)[i], depth + 1>>]
                 IN bfsLoop(sets, visited \cup fresh, Tail(queue) \o pushed,
                            direction, maxDepth)

bfsRedis(sets, startNode, direction, maxDepth) ==
    bfsLoop(sets, {startNode}, <<<<startNode, 0>>>>, direction, maxDepth)

ContextRedis(sets, node) ==
    bfsRedis(sets, node, "backward", ContextMaxDepth)
    \cup bfsRedis(sets, node, "forward", ContextMaxDepth) \cup {node}

\* the sadd commands issued by computeReachableSetsRedis
computeReachableSetsRedis(sets) ==
    sets
    \cup UNION {{<<"graph:reachable:public:" \o p, m>> :
                    m \in bfsRedis(sets, p, "forward", DefaultMaxDepth)} :
                p \in SMembers(sets, "graph:nodes:public")}
    \cup UNION {{<<"graph:reachable:sink:" \o s, m>> :
                    m \in bfsRedis(sets, s, "backward", DefaultMaxDepth)} :
                s \in SMembers(sets, "graph:nodes:sinks")}
    \cup UNION {{<<"graph:reachable:vulnerable:" \o v, m>> : m \in ContextRedis(sets, v)} :
                v \in SMembers(sets, "graph:nodes:vulnerable")}
    \cup UNION {UNION {{<<"graph:reachable:meta:" \o mk \o ":" \o n, m>> :
                           m \in ContextRedis(sets, n)} :
                       n \in SMembers(sets, "graph:nodes:meta:" \o mk)} :
                mk \in SMembers(sets, "graph:meta:keys")}

(***************************************************************************)
(* Redis backend: queries and statistics                                   *)
(***************************************************************************)
\* a request's metadataFilters is absent (present = FALSE) or a mapping key -> value,
\* given as its set of entries
NoMetadataFilters == [present |-> FALSE, pairs |-> {}]

ThrownResponse ==
    [threw |-> TRUE, nodes |-> {}, links |-> {},
     metadata |-> [totalNodes |-> 0, totalEdges |-> 0, publicNodes |-> 0,
                   sinkNodes |-> 0, vulnerableNodes |-> 0]]

ShapeResponse(graphNodes, graphLinks) ==
    [threw |-> FALSE, nodes |-> graphNodes, links |-> graphLinks,
     metadata |-> [totalNodes |-> Cardinality(graphNodes),
                   totalEdges |-> Cardinality(graphLinks),
                   publicNodes |-> Cardinality({n \in graphNodes : n.isPublic}),
                   sinkNodes |-> Cardinality({n \in graphNodes : n.isSink}),
                   vulnerableNodes |-> Cardinality({n \in graphNodes : n.hasVulnerability})]]

\* every stored target of an included node becomes a link, included or not
buildGraphResponseRedisEveryTarget(sets, hash, nodeIds) ==
    LET links == UNION {{<<n, t>> : t \in SMembers(sets, "graph:edges:" \o n)} : n \in nodeIds}
        graphNode(nodeId) ==
            LET key == "graph:node:" \o nodeId
                found == key \in DOMAIN hash
            IN [id |-> nodeId,
                group |-> IF found THEN hash[key].kind ELSE "unknown",
                isPublic |-> found /\ hash[key].publicExposed = "1",
                isSink |-> SIsMember(sets, "graph:nodes:sinks", nodeId),
                hasVulnerability |-> SIsMember(sets, "graph:nodes:vulnerable", nodeId),
                vulnerabilities |-> IF found THEN hash[key].vulnerabilities.json ELSE <<>>,
                metadata |-> IF found THEN hash[key].metadata.json ELSE {}]
    IN ShapeResponse({graphNode(n) : n \in nodeIds}, links)

buildGraphResponseRedis(sets, hash, nodeIds) ==
    LET links == {l \in UNION {{<<n, t>> : t \in SMembers(sets, "graph:edges:" \o n)} :
                               n \in nodeIds} : l[2] \in nodeIds}
        graphNode(nodeId) ==
            LET key == "graph:node:" \o nodeId
                found == key \in DOMAIN hash
            IN [id |-> nodeId,
                group |-> IF found THEN hash[key].kind ELSE "unknown",
                isPublic |-> found /\ hash[key].publicExposed = "1",
                isSink |-> SIsMember(sets, "graph:nodes:sinks", nodeId),
                hasVulnerability |-> SIsMember(sets, "graph:nodes:vulnerable", nodeId),
                vulnerabilities |-> IF found THEN hash[key].vulnerabilities.json ELSE <<>>,
                metadata |-> IF found THEN hash[key].metadata.json ELSE {}]
    IN ShapeResponse({graphNode(n) : n \in nodeIds}, links)

\* endsInSink is only looked at when startsWithPublic is not set
getFilteredGraphRedisElseIf(sets, hash, filters) ==
    LET nodeKeys ==
            (IF filters.startsWithPublic
             THEN {"graph:reachable:public:" \o n : n \in SMembers(sets, "graph:nodes:public")}
             ELSE IF filters.endsInSink
                  THEN {"graph:reachable:sink:" \o n : n \in SMembers(sets, "graph:nodes:sinks")}
                  ELSE {})
            \cup (IF filters.hasVulnerability
                  THEN {"graph:reachable:vulnerable:" \o n :
                           n \in SMembers(sets, "graph:nodes:vulnerable")}
                  ELSE {})
            \cup (IF filters.metadataFilters.present
                  THEN UNION {{"graph:reachable:meta:" \o kv[1] \o ":" \o kv[2] \o ":" \o n :
                                  n \in SMembers(sets, "graph:nodes:meta:" \o kv[1] \o ":" \o kv[2])} :
                              kv \in filters.metadataFilters.pairs}
                  ELSE {})
        nodeIds == IF hasActiveFilters(filters)
                   THEN SUnion(sets, nodeKeys)
                   ELSE SMembers(sets, "graph:nodes:all")
    IN buildGraphResponseRedis(sets, hash, nodeIds)

getFilteredGraphRedis(sets, hash, filters) ==
    LET nodeKeys ==
            (IF filters.startsWithPublic
             THEN {"graph:reachable:public:" \o n : n \in SMembers(sets, "graph:nodes:public")}
             ELSE {})
            \cup (IF filters.endsInSink
                  THEN {"graph:reachable:sink:" \o n : n \in SMembers(sets, "graph:nodes:sinks")}
                  ELSE {})
            \cup (IF filters.hasVulnerability
                  THEN {"graph:reachable:vulnerable:" \o n :
                           n \in SMembers(sets, "graph:nodes:vulnerable")}
                  ELSE {})
            \cup (IF filters.metadataFilters.present
                  THEN UNION {{"graph:reachable:meta:" \o kv[1] \o ":" \o kv[2] \o ":" \o n :
                                  n \in SMembers(sets, "graph:nodes:meta:" \o kv[1] \o ":" \o kv[2])} :
                              kv \in filters.metadataFilters.pairs}
                  ELSE {})
        nodeIds == IF hasActiveFilters(filters)
                   THEN SUnion(sets, nodeKeys)
                   ELSE SMembers(sets, "graph:nodes:all")
    IN buildGraphResponseRedis(sets, hash, nodeIds)

\* the keys computeReachableSetsRedis writes, for the names and metadata pairs of the universe
ReachabilityKeys ==
    {"graph:reachable:" \o kind \o ":" \o n : kind \in {"public", "sink", "vulnerable"}, n \in Names}
    \cup {"graph:reachable:meta:" \o mk \o ":" \o n : mk \in {"env:prod", "cwe:79"}, n \in Names}

\* totalNodes is counted over the precomputed reachability sets
getStatisticsRedisOverReachable(sets) ==
    [totalNodes |-> Cardinality(SUnion(sets, ReachabilityKeys)),
     totalEdges |-> Cardinality(SMembers(sets, "graph:edges:all")),
     publicNodes |-> SCard(sets, "graph:nodes:public"),
     sinkNodes |-> SCard(sets, "graph:nodes:sinks"),
     vulnerableNodes |-> SCard(sets, "graph:nodes:vulnerable"),
     storageType |-> "redis"]

getStatisticsRedis(sets) ==
    [totalNodes |-> SCard(sets, "graph:nodes:all"),
     totalEdges |-> Cardinality(SMembers(sets, "graph:edges:all")),
     publicNodes |-> SCard(sets, "graph:nodes:public"),
     sinkNodes |-> SCard(sets, "graph:nodes:sinks"),
     vulnerableNodes |-> SCard(sets, "graph:nodes:vulnerable"),
     storageType |-> "redis"]

(***************************************************************************)
(* In-memory backend.  An engine state m is the record of the ten maps and *)
(* sets of the service.                                                    *)
(***************************************************************************)
initializeEmptyGraph(m) ==
    [m EXCEPT !.nodes = EmptyMap, !.adjacencyList = EmptyMap,
              !.reverseAdjacencyList = EmptyMap, !.publicNodes = {}, !.sinkNodes = {},
              !.vulnerableNodes = {}, !.nodesByKind = EmptyMap, !.publicPaths = EmptyMap,
              !.sinkPaths = EmptyMap, !.vulnerablePaths = EmptyMap]

RECURSIVE processNodeChunk(_, _)
processNodeChunk(m, chunk) ==
    IF chunk = {} THEN m
    ELSE LET node == CHOOSE n \in chunk : TRUE
             m2 == [m EXCEPT
                     !.nodes = MapPut(@, node.name, node),
                     !.adjacencyList = MapPut(@, node.name, {}),
                     !.reverseAdjacencyList = MapPut(@, node.name, {}),
                     !.nodesByKind = MapPut(@, node.kind, MapGet(@, node.kind, {}) \cup {node.name}),
                     !.publicNodes = IF node.publicExposed THEN @ \cup {node.name} ELSE @,
                     !.sinkNodes = IF isSinkNode(node) THEN @ \cup {node.name} ELSE @,
                     !.vulnerableNodes = IF Len(node.vulnerabilities) > 0
                                         THEN @ \cup {node.name} ELSE @]
         IN processNodeChunk(m2, chunk \ {node})

RECURSIVE processEdgeChunk(_, _)
processEdgeChunk(m, edges) ==
    IF edges = {} THEN m
    ELSE LET e == CHOOSE x \in edges : TRUE
             m2 == [m EXCEPT
                     !.adjacencyList = IF e[1] \in DOMAIN @
                                       THEN MapPut(@, e[1], @[e[1]] \cup {e[2]}) ELSE @,
                     !.reverseAdjacencyList = MapPut(@, e[2], MapGet(@, e[2], {}) \cup {e[1]})]
         IN processEdgeChunk(m2, edges \ {e})

createRoute(m, path) ==
    [path |-> path, source |-> path[1], target |-> path[Len(path)],
     hasVulnerability |-> \E i \in DOMAIN path : path[i] \in m.vulnerableNodes,
     isPublicSource |-> path[1] \in m.publicNodes,
     isSinkTarget |-> path[Len(path)] \in m.sinkNodes]

\* the paths pushed to routes by the call and by the calls it makes
RECURSIVE explorePathsRecursive(_, _, _, _, _, _, _)
explorePathsRecursive(m, currentNode, currentPath, visited, direction, depth, maxDepth) ==
    IF depth >= maxDepth THEN {}
    ELSE LET seen == visited \cup {currentNode}
             neighbors == IF direction = "forward"
                          THEN MapGet(m.adjacencyList, currentNode, {})
                          ELSE MapGet(m.reverseAdjacencyList, currentNode, {})
             newPath(nb) == IF direction = "forward"
                            THEN Append(currentPath, nb) ELSE <<nb>> \o currentPath
         IN UNION {{newPath(nb)} \cup explorePathsRecursive(m, nb, newPath(nb), seen,
                                                            direction, depth + 1, maxDepth) :
                   nb \in neighbors \ seen}

computePathsFromNodeAsync(m, startNode, direction, maxDepth) ==
    {createRoute(m, p) :
        p \in explorePathsRecursive(m, startNode, <<startNode>>, {}, direction, 0, maxDepth)}

computeVulnerablePathsAsync(m, vulnerableNode) ==
    LET incomingPaths == computePathsFromNodeAsync(m, vulnerableNode, "backward", ContextMaxDepth)
        outgoingPaths == computePathsFromNodeAsync(m, vulnerableNode, "forward", ContextMaxDepth)
    IN {createRoute(m, SubSeq(i.path, 1, Len(i.path) - 1) \o o.path) :
           i \in incomingPaths, o \in {r \in outgoingPaths : Len(r.path) > 1}}

\* Map.set for every key of new
MapSetAll(old, new) ==
    [x \in (DOMAIN old) \cup (DOMAIN new) |-> IF x \in DOMAIN new THEN new[x] ELSE old[x]]

precomputePathsAsync(m) ==
    [m EXCEPT
      !.publicPaths = MapSetAll(@,
          [p \in m.publicNodes |-> computePathsFromNodeAsync(m, p, "forward", DefaultMaxDepth)]),
      !.sinkPaths = MapSetAll(@,
          [s \in m.sinkNodes |-> computePathsFromNodeAsync(m, s, "backward", DefaultMaxDepth)]),
      !.vulnerablePaths = MapSetAll(@,
          [v \in m.vulnerableNodes |-> computeVulnerablePathsAsync(m, v)])]


AllRoutesOf(paths) == UNION {paths[k] : k \in DOMAIN paths}

getAllPrecomputedRoutes(m) ==
    AllRoutesOf(m.publicPaths) \cup AllRoutesOf(m.sinkPaths) \cup AllRoutesOf(m.vulnerablePaths)

\* nodeData = this.nodes.get(nodeId)! is undefined for a name that was never declared,
\* and nodeData.kind then throws a TypeError
buildGraphResponse(m, routes) ==
    LET names == UNION {Range(r.path) : r \in routes}
        links == UNION {{<<r.path[i], r.path[i + 1]>> : i \in 1..(Len(r.path) - 1)} :
                        r \in routes}
        graphNode(nodeId) ==
            [id |-> nodeId,
             group |-> m.nodes[nodeId].kind,
             isPublic |-> nodeId \in m.publicNodes,
             isSink |-> nodeId \in m.sinkNodes,
             hasVulnerability |-> nodeId \in m.vulnerableNodes,
             vulnerabilities |-> m.nodes[nodeId].vulnerabilities,
             metadata |-> m.nodes[nodeId].metadata]
    IN IF \E n \in names : n \notin DOMAIN m.nodes
       THEN ThrownResponse
       ELSE ShapeResponse({graphNode(n) : n \in names}, links)

\* a node without a metadata field is the node with metadata = {}
RouteMatchesMetadata(m, route, pairs) ==
    \E i \in DOMAIN route.path :
        /\ route.path[i] \in DOMAIN m.nodes
        /\ m.nodes[route.path[i]].metadata # {}
        /\ \A kv \in pairs : kv \in m.nodes[route.path[i]].metadata

\* a sink route is kept whatever its source is
getFilteredGraphMemoryEverySinkRoute(m, filters) ==
    LET fromPublic == IF filters.startsWithPublic THEN AllRoutesOf(m.publicPaths) ELSE {}
        toSink == IF filters.endsInSink THEN AllRoutesOf(m.sinkPaths) ELSE {}
        throughVulnerable ==
            IF filters.hasVulnerability
            THEN {r \in AllRoutesOf(m.vulnerablePaths) :
                     /\ (~filters.startsWithPublic \/ r.isPublicSource)
                     /\ (~filters.endsInSink \/ r.isSinkTarget)}
            ELSE {}
        filteredRoutes == fromPublic \cup toSink \cup throughVulnerable
        afterMetadata ==
            IF filters.metadataFilters.present
            THEN {r \in filteredRoutes : RouteMatchesMetadata(m, r, filters.metadataFilters.pairs)}
            ELSE filteredRoutes
        finalRoutes == IF hasActiveFilters(filters) THEN afterMetadata
                       ELSE getAllPrecomputedRoutes(m)
    IN buildGraphResponse(m, finalRoutes)

getFilteredGraphMemory(m, filters) ==
    LET fromPublic == IF filters.startsWithPublic THEN AllRoutesOf(m.publicPaths) ELSE {}
        toSink == IF filters.endsInSink
                  THEN {r \in AllRoutesOf(m.sinkPaths) :
                           ~filters.startsWithPublic \/ r.isPublicSource}
                  ELSE {}
        throughVulnerable ==
            IF filters.hasVulnerability
            THEN {r \in AllRoutesOf(m.vulnerablePaths) :
                     /\ (~filters.startsWithPublic \/ r.isPublicSource)
                     /\ (~filters.endsInSink \/ r.isSinkTarget)}
            ELSE {}
        filteredRoutes == fromPublic \cup toSink \cup throughVulnerable
        afterMetadata ==
            IF filters.metadataFilters.present
            THEN {r \in filteredRoutes : RouteMatchesMetadata(m, r, filters.metadataFilters.pairs)}
            ELSE filteredRoutes
        finalRoutes == IF hasActiveFilters(filters) THEN afterMetadata
                       ELSE getAllPrecomputedRoutes(m)
    IN buildGraphResponse(m, finalRoutes)

RECURSIVE SumSizes(_, _)
SumSizes(map, keys) ==
    IF keys = {} THEN 0
    ELSE LET k == CHOOSE x \in keys : TRUE
         IN Cardinality(map[k]) + SumSizes(map, keys \ {k})

getStatisticsMemory(m) ==
    [totalNodes |-> Cardinality(DOMAIN m.nodes),
     totalEdges |-> SumSizes(m.adjacencyList, DOMAIN m.adjacencyList),
     publicNodes |-> Cardinality(m.publicNodes),
     sinkNodes |-> Cardinality(m.sinkNodes),
     vulnerableNodes |-> Cardinality(m.vulnerableNodes),
     storageType |-> "memory"]

(***************************************************************************)
(* The whole loadGraph handler, run without another request in between     *)
(***************************************************************************)
loadGraphRedisSets(sets, hash, data) ==
    computeReachableSetsRedis(PipelineExecSets(sets, RedisKeys(sets, hash), data))

loadGraphRedisHash(sets, hash, data) == PipelineExecHash(hash, RedisKeys(sets, hash), data)

preprocessGraphAsync(m, data) ==
    processEdgeChunk(processNodeChunk(m, data.nodes), ExpandedEdges(data))

loadGraphMemory(m, data) ==
    precomputePathsAsync(preprocessGraphAsync(initializeEmptyGraph(m), data))

(***************************************************************************)
(* State machine                                                           *)
(***************************************************************************)
Calls == {1, 2}

Mem ==
    [nodes |-> nodes, adjacencyList |-> adjacencyList,
     reverseAdjacencyList |-> reverseAdjacencyList, publicNodes |-> publicNodes,
     sinkNodes |-> sinkNodes, vulnerableNodes |-> vulnerableNodes,
     nodesByKind |-> nodesByKind, publicPaths |-> publicPaths, sinkPaths |-> sinkPaths,
     vulnerablePaths |-> vulnerablePaths]

SetMem(m) ==
    /\ nodes' = m.nodes
    /\ adjacencyList' = m.adjacencyList
    /\ reverseAdjacencyList' = m.reverseAdjacencyList
    /\ publicNodes' = m.publicNodes
    /\ sinkNodes' = m.sinkNodes
    /\ vulnerableNodes' = m.vulnerableNodes
    /\ nodesByKind' = m.nodesByKind
    /\ publicPaths' = m.publicPaths
    /\ sinkPaths' = m.sinkPaths
    /\ vulnerablePaths' = m.vulnerablePaths

\* every call asks the server again instead of the two fields
RedisActiveReprobed == moduleInit /\ redisUp

\* the test every public method makes: this.useRedis && this.redis
RedisActive == useRedis /\ redis # "null"

\* a command sent to the backend in use is answered: the in-process maps always answer,
\* a Redis command is rejected while the server does not answer the client
BackendReachable == RedisActive => redisUp

Idle == \A c \in Calls : pc[c] \in {"idle", "done", "failed"}

\* no payload is being ingested: its backend, the await the handler is at, the lengths of
\* the chunks still to process, the numbers of nodes and of edges of the payload, and the
\* numbers of nodes and of edges handled since the handler last yielded to the event loop
IngestIdle ==
    [stage |-> "idle", nodeChunks |-> <<>>, edgeChunks |-> <<>>, nodeCount |-> 0,
     edgeCount |-> 0, nodesRun |-> 0, edgesRun |-> 0]

\* no traversal is running
TraverseIdle ==
    [mode |-> "idle", data |-> EmptyGraph, direction |-> "forward", maxDepth |-> 0,
     visited |-> {}, queue |-> <<>>, enqueued |-> <<>>, stack |-> <<>>, routes |-> {}]

Init ==
    /\ moduleInit = FALSE
    /\ useRedis = TRUE
    /\ redis = "null"
    /\ rsets = {}
    /\ rhash = EmptyMap
    /\ nodes = EmptyMap
    /\ adjacencyList = EmptyMap
    /\ reverseAdjacencyList = EmptyMap
    /\ publicNodes = {}
    /\ sinkNodes = {}
    /\ vulnerableNodes = {}
    /\ nodesByKind = EmptyMap
    /\ publicPaths = EmptyMap
    /\ sinkPaths = EmptyMap
    /\ vulnerablePaths = EmptyMap
    /\ pc = [c \in Calls |-> "idle"]
    /\ ldata = [c \in Calls |-> EmptyGraph]
    /\ lkeys = [c \in Calls |-> {}]
    /\ loaded = EmptyGraph
    /\ replaced = {}
    /\ loads = 0
    /\ overlapped = FALSE
    /\ probed = "none"
    /\ lastLoad = "none"
    /\ redisUp \in BOOLEAN
    /\ times = 0
    /\ conn = "connecting"
    /\ retryDelay = 0
    /\ ingest = IngestIdle
    /\ trav = TraverseIdle

\* onModuleInit: the availability probe selects the backend
OnModuleInit(available) ==
    /\ ~moduleInit
    /\ moduleInit' = TRUE
    /\ useRedis' = available
    /\ redis' = IF available THEN "client" ELSE "null"
    /\ probed' = IF available THEN "up" ELSE "down"
    /\ IF available THEN UNCHANGED memVars ELSE SetMem(initializeEmptyGraph(Mem))
    /\ UNCHANGED <<redisVars, callVars, histVars, lastLoad, envVars>>
    /\ UNCHANGED stepVars

\* loadGraph(data), completing before any other request is served
LoadGraph(data) ==
    /\ moduleInit
    /\ Idle
    /\ loads < MaxLoads
    /\ BackendReachable
    /\ IF RedisActive
       THEN /\ rsets' = loadGraphRedisSets(rsets, rhash, data)
            /\ rhash' = loadGraphRedisHash(rsets, rhash, data)
            /\ UNCHANGED memVars
       ELSE /\ SetMem(loadGraphMemory(Mem, data))
            /\ UNCHANGED redisVars
    /\ loaded' = data
    /\ replaced' = DeclaredNames(loaded)
    /\ loads' = loads + 1
    /\ lastLoad' = "ok"
    /\ UNCHANGED <<moduleInit, useRedis, redis, callVars, overlapped, probed, envVars>>
    /\ UNCHANGED stepVars

ReloadGraphs ==
    { EmptyGraph,
      [nodes |-> {MkNode("b", [kind |-> "service", publicExposed |-> FALSE,
                               vulnerabilities |-> <<>>, metadata |-> {}])},
       edges |-> {}],
      [nodes |-> {MkNode("a", [kind |-> "service", publicExposed |-> TRUE,
                               vulnerabilities |-> <<>>, metadata |-> {}]),
                  MkNode("b", [kind |-> "rds", publicExposed |-> FALSE,
                               vulnerabilities |-> <<>>, metadata |-> {}])},
       edges |-> {[from |-> "a", to |-> <<"b">>]}] }

Next ==
    \/ OnModuleInit(redisUp)
    \/ \E data \in IF loads = 0 THEN Graphs ELSE ReloadGraphs : LoadGraph(data)

Spec == Init /\ [][Next]_vars

(***************************************************************************)
(* loadGraph as the event loop runs it: the handler is suspended at its    *)
(* awaits, where the handler of another request can run.  The steps below  *)
(* are the stretches between the awaits at which the backend has been      *)
(* written: after redis.keys, after pipeline.exec, after the node chunk,   *)
(* after the edge chunk.  The precomputation that follows is one step (its *)
(* own awaits are not used as switching points).                           *)
(***************************************************************************)
Running(c) == pc[c] \notin {"idle", "done", "failed"}

StartLoadRedis(c, data) ==
    /\ moduleInit /\ RedisActive /\ redisUp
    /\ pc[c] = "idle"
    /\ pc' = [pc EXCEPT ![c] = "keys"]
    /\ ldata' = [ldata EXCEPT ![c] = data]
    /\ lkeys' = [lkeys EXCEPT ![c] = RedisKeys(rsets, rhash)]
    /\ overlapped' = (overlapped \/ \E d \in Calls \ {c} : Running(d))
    /\ UNCHANGED <<moduleInit, useRedis, redis, redisVars, memVars, loaded, replaced, loads,
                   probed, lastLoad, envVars>>
    /\ UNCHANGED stepVars

ExecPipeline(c) ==
    /\ pc[c] = "keys"
    /\ redisUp
    /\ rsets' = PipelineExecSets(rsets, lkeys[c], ldata[c])
    /\ rhash' = PipelineExecHash(rhash, lkeys[c], ldata[c])
    /\ pc' = [pc EXCEPT ![c] = "exec"]
    /\ lkeys' = [lkeys EXCEPT ![c] = {}]
    /\ UNCHANGED <<moduleInit, useRedis, redis, memVars, ldata, histVars, probed, lastLoad,
                   envVars>>
    /\ UNCHANGED stepVars

ComputeReachableSets(c) ==
    /\ pc[c] = "exec"
    /\ redisUp
    /\ rsets' = computeReachableSetsRedis(rsets)
    /\ pc' = [pc EXCEPT ![c] = "done"]
    /\ loaded' = ldata[c]
    /\ replaced' = DeclaredNames(loaded)
    /\ loads' = loads + 1
    /\ lastLoad' = "ok"
    /\ UNCHANGED <<moduleInit, useRedis, redis, rhash, memVars, ldata, lkeys, overlapped,
                   probed, envVars>>
    /\ UNCHANGED stepVars

StartLoadMemory(c, data) ==
    /\ moduleInit /\ ~RedisActive
    /\ pc[c] = "idle"
    /\ SetMem(processNodeChunk(initializeEmptyGraph(Mem), data.nodes))
    /\ pc' = [pc EXCEPT ![c] = "nodes"]
    /\ ldata' = [ldata EXCEPT ![c] = data]
    /\ overlapped' = (overlapped \/ \E d \in Calls \ {c} : Running(d))
    /\ UNCHANGED <<moduleInit, useRedis, redis, redisVars, lkeys, loaded, replaced, loads,
                   probed, lastLoad, envVars>>
    /\ UNCHANGED stepVars

ProcessEdges(c) ==
    /\ pc[c] = "nodes"
    /\ SetMem(processEdgeChunk(Mem, ExpandedEdges(ldata[c])))
    /\ pc' = [pc EXCEPT ![c] = "edges"]
    /\ UNCHANGED <<moduleInit, useRedis, redis, redisVars, ldata, lkeys, histVars, probed,
                   lastLoad, envVars>>
    /\ UNCHANGED stepVars

PrecomputePaths(c) ==
    /\ pc[c] = "edges"
    /\ SetMem(precomputePathsAsync(Mem))
    /\ pc' = [pc EXCEPT ![c] = "done"]
    /\ loaded' = ldata[c]
    /\ replaced' = DeclaredNames(loaded)
    /\ loads' = loads + 1
    /\ lastLoad' = "ok"
    /\ UNCHANGED <<moduleInit, useRedis, redis, redisVars, ldata, lkeys, overlapped, probed,
                   envVars>>
    /\ UNCHANGED stepVars

\* graphs with at least one node and one edge, so that every step above ends at an await
AsyncGraphs ==
    { [nodes |-> {MkNode("a", [kind |-> "service", publicExposed |-> TRUE,
                               vulnerabilities |-> <<>>, metadata |-> {}]),
                  MkNode("b", [kind |-> "rds", publicExposed |-> FALSE,
                               vulnerabilities |-> <<>>, metadata |-> {}])},
       edges |-> {[from |-> "a", to |-> <<"b">>]}],
      [nodes |-> {MkNode("a", [kind |-> "rds", publicExposed |-> FALSE,
                               vulnerabilities |-> <<>>, metadata |-> {}]),
                  MkNode("b", [kind |-> "service", publicExposed |-> TRUE,
                               vulnerabilities |-> <<Vuln79>>, metadata |-> {}])},
       edges |-> {[from |-> "b", to |-> <<"a">>]}],
      [nodes |-> {MkNode("b", [kind |-> "service", publicExposed |-> TRUE,
                               vulnerabilities |-> <<>>, metadata |-> {<<"env", "prod">>}])},
       edges |-> {[from |-> "b", to |-> <<"b", "a">>]}] }

\* pipeline.exec() resolves although queued commands returned errors
ExecPipelineCommandFails(c, lost) ==
    /\ pc[c] = "keys"
    /\ redisUp
    /\ rsets' = PipelineExecSetsWithErrors(rsets, lkeys[c], ldata[c], lost)
    /\ rhash' = PipelineExecHash(rhash, lkeys[c], ldata[c])
    /\ pc' = [pc EXCEPT ![c] = "exec"]
    /\ lkeys' = [lkeys EXCEPT ![c] = {}]
    /\ UNCHANGED <<moduleInit, useRedis, redis, memVars, ldata, histVars, probed, lastLoad,
                   envVars>>
    /\ UNCHANGED stepVars

\* an awaited Redis command is rejected (redis.keys, pipeline.exec or a command of
\* computeReachableSetsRedis): the rejection leaves loadGraph as an exception
LoadGraphRejects(c) ==
    /\ moduleInit /\ RedisActive /\ ~redisUp
    /\ pc[c] \in {"idle", "keys", "exec"}
    /\ pc' = [pc EXCEPT ![c] = "failed"]
    /\ lkeys' = [lkeys EXCEPT ![c] = {}]
    /\ lastLoad' = "rejected"
    /\ UNCHANGED <<moduleInit, useRedis, redis, redisVars, memVars, ldata, histVars, probed,
                   envVars>>
    /\ UNCHANGED stepVars

\* the environment: the Redis server stops or starts answering
RedisConnectionChange ==
    /\ redisUp' = ~redisUp
    /\ UNCHANGED <<moduleInit, useRedis, redis, redisVars, memVars, callVars, histVars,
                   probed, lastLoad, clientVars>>
    /\ UNCHANGED stepVars

NextAsync ==
    \/ OnModuleInit(redisUp)
    \/ \E c \in Calls, data \in AsyncGraphs : StartLoadRedis(c, data)
    \/ \E c \in Calls : ExecPipeline(c)
    \/ \E c \in Calls, lost \in {"nodes", "edges"} : ExecPipelineCommandFails(c, lost)
    \/ \E c \in Calls : ComputeReachableSets(c)
    \/ \E c \in Calls : LoadGraphRejects(c)
    \/ \E c \in Calls, data \in AsyncGraphs : StartLoadMemory(c, data)
    \/ \E c \in Calls : ProcessEdges(c)
    \/ \E c \in Calls : PrecomputePaths(c)
    \/ RedisConnectionChange

SpecAsync == Init /\ [][NextAsync]_vars

(***************************************************************************)
(* Faults: a load request whose body is not a graph, a load request made   *)
(* while Redis does not answer, and Redis going away or coming back after  *)
(* the probe of onModuleInit.  Requests are served one at a time.          *)
(***************************************************************************)
\* a request body in which nodes or edges is missing (undefined)
MalformedPayloads ==
    { [hasNodes |-> FALSE, nodes |-> {}, hasEdges |-> TRUE, edges |-> {}],
      [hasNodes |-> FALSE, nodes |-> {}, hasEdges |-> FALSE, edges |-> {}],
      [hasNodes |-> TRUE,
       nodes |-> {MkNode("b", [kind |-> "rds", publicExposed |-> TRUE,
                               vulnerabilities |-> <<>>, metadata |-> {}])},
       hasEdges |-> FALSE, edges |-> {}] }

\* loadGraphMemory on such a body: chunkArray(undefined, 100) throws a TypeError on
\* array.length, for nodes right after initializeEmptyGraph, for edges after the node chunks
loadGraphMemoryMalformed(m, payload) ==
    IF ~payload.hasNodes THEN initializeEmptyGraph(m)
    ELSE processNodeChunk(initializeEmptyGraph(m), payload.nodes)

\* the controller hands the body to loadGraph as it is (its parameter type is the
\* interface GraphData, which carries no validation rules).  On Redis data.nodes.forEach
\* or data.edges.forEach throws before pipeline.exec, or redis.keys is rejected.
LoadMalformed(payload) ==
    /\ moduleInit
    /\ Idle
    /\ IF RedisActive
       THEN UNCHANGED memVars
       ELSE SetMem(loadGraphMemoryMalformed(Mem, payload))
    /\ lastLoad' = IF RedisActive /\ ~redisUp THEN "rejected" ELSE "typeError"
    /\ UNCHANGED <<moduleInit, useRedis, redis, redisVars, callVars, histVars, probed,
                   envVars>>
    /\ UNCHANGED stepVars

\* loadGraph(data) while Redis does not answer: await redis.keys('graph:*') is rejected
LoadGraphRejected ==
    /\ moduleInit
    /\ Idle
    /\ RedisActive /\ ~redisUp
    /\ lastLoad' = "rejected"
    /\ UNCHANGED <<moduleInit, useRedis, redis, redisVars, memVars, callVars, histVars,
                   probed, envVars>>
    /\ UNCHANGED stepVars

FaultGraphs == ReloadGraphs \cup AsyncGraphs

NextFaults ==
    \/ OnModuleInit(redisUp)
    \/ \E data \in FaultGraphs : LoadGraph(data)
    \/ LoadGraphRejected
    \/ \E payload \in MalformedPayloads : LoadMalformed(payload)
    \/ RedisConnectionChange

SpecFaults == Init /\ [][NextFaults]_vars

(***************************************************************************)
(* RedisService: the connection loop of the client created in its          *)
(* onModuleInit.  After every failed connection attempt the client calls   *)
(* retryStrategy(times) with the number of consecutive failures; a number  *)
(* is the delay in ms before the next attempt, null ends the retrying.  An  *)
(* established connection that closes is handled like a failed attempt.    *)
(***************************************************************************)
NoRetry == -1

retryStrategy(t) == IF 100 * t < 2000 THEN 100 * t ELSE 2000

ConnectFails ==
    /\ conn \in {"connecting", "ready"}
    /\ ~redisUp
    /\ times < MaxRetries
    /\ times' = times + 1
    /\ LET delay == retryStrategy(times + 1)
       IN IF delay = NoRetry
          THEN conn' = "end" /\ UNCHANGED retryDelay
          ELSE conn' = "wait" /\ retryDelay' = delay
    /\ UNCHANGED <<moduleInit, useRedis, redis, redisVars, memVars, callVars, histVars,
                   probed, lastLoad, redisUp>>
    /\ UNCHANGED stepVars

RetryTimer ==
    /\ conn = "wait"
    /\ conn' = "connecting"
    /\ UNCHANGED <<moduleInit, useRedis, redis, redisVars, memVars, callVars, histVars,
                   probed, lastLoad, redisUp, times, retryDelay>>
    /\ UNCHANGED stepVars

ConnectSucceeds ==
    /\ conn = "connecting"
    /\ redisUp
    /\ conn' = "ready"
    /\ times' = 0
    /\ retryDelay' = 0
    /\ UNCHANGED <<moduleInit, useRedis, redis, redisVars, memVars, callVars, histVars,
                   probed, lastLoad, redisUp>>
    /\ UNCHANGED stepVars

NextReconnect ==
    \/ ConnectFails
    \/ RetryTimer
    \/ ConnectSucceeds
    \/ RedisConnectionChange

SpecReconnect == Init /\ [][NextReconnect]_vars

(***************************************************************************)
(* The public read operations, on the current state.  On the Redis backend *)
(* the first awaited command is rejected while Redis does not answer.      *)
(***************************************************************************)
RejectedStatistics == [rejected |-> TRUE]

getFilteredGraph(filters) ==
    IF RedisActive
    THEN IF redisUp THEN getFilteredGraphRedis(rsets, rhash, filters) ELSE ThrownResponse
    ELSE getFilteredGraphMemory(Mem, filters)

getStatistics ==
    IF RedisActive
    THEN IF redisUp THEN getStatisticsRedis(rsets) ELSE RejectedStatistics
    ELSE getStatisticsMemory(Mem)

NodeIds(response) == {n.id : n \in response.nodes}

MetadataFilterChoices ==
    { NoMetadataFilters,
      [present |-> TRUE, pairs |-> {}],
      [present |-> TRUE, pairs |-> {<<"env", "prod">>}],
      [present |-> TRUE, pairs |-> {<<"cwe", "79">>}],
      [present |-> TRUE, pairs |-> {<<"env", "prod">>, <<"cwe", "79">>}] }

AllFilters ==
    [startsWithPublic : BOOLEAN, endsInSink : BOOLEAN, hasVulnerability : BOOLEAN,
     metadataFilters : MetadataFilterChoices]

Filter(pub, sink, vuln) ==
    [startsWithPublic |-> pub, endsInSink |-> sink, hasVulnerability |-> vuln,
     metadataFilters |-> NoMetadataFilters]

TypeOK == loads \in 0..MaxLoads

(***************************************************************************)
(* Reference notions used by the properties                                *)
(***************************************************************************)
EmptyEngine ==
    [nodes |-> EmptyMap, adjacencyList |-> EmptyMap, reverseAdjacencyList |-> EmptyMap,
     publicNodes |-> {}, sinkNodes |-> {}, vulnerableNodes |-> {}, nodesByKind |-> EmptyMap,
     publicPaths |-> EmptyMap, sinkPaths |-> EmptyMap, vulnerablePaths |-> EmptyMap]

\* a fresh engine that ran only loadGraph(data)
FreshSets(data) == loadGraphRedisSets({}, EmptyMap, data)
FreshHash(data) == loadGraphRedisHash({}, EmptyMap, data)
FreshMem(data) == loadGraphMemory(EmptyEngine, data)

\* what a caller observes of a response: the node ids, the links, or the exception
Observed(response) ==
    [threw |-> response.threw, nodes |-> NodeIds(response), links |-> response.links]

CoreStatistics(st) ==
    [totalNodes |-> st.totalNodes, totalEdges |-> st.totalEdges,
     publicNodes |-> st.publicNodes, sinkNodes |-> st.sinkNodes,
     vulnerableNodes |-> st.vulnerableNodes]

\* node names at most k edge hops from the set S, along (forward) or against (backward)
\* the expanded edges E
RECURSIVE WithinHops(_, _, _, _)
WithinHops(E, S, direction, k) ==
    IF k = 0 THEN S
    ELSE LET step == IF direction = "forward"
                     THEN {e[2] : e \in {x \in E : x[1] \in S}}
                     ELSE {e[1] : e \in {x \in E : x[2] \in S}}
         IN IF step \subseteq S THEN S ELSE WithinHops(E, S \cup step, direction, k - 1)

PublicOf(data) == {n.name : n \in {x \in data.nodes : x.publicExposed}}
SinksOf(data) == {n.name : n \in {x \in data.nodes : x.kind \in {"rds", "sqs", "sql", "database"}}}
VulnerableOf(data) == {n.name : n \in {x \in data.nodes : x.vulnerabilities # <<>>}}

\* a graph is loaded: the loadGraph call that ended last succeeded, none is in progress,
\* and the backend answers
Loaded == moduleInit /\ Idle /\ loads >= 1 /\ lastLoad = "ok" /\ BackendReachable

(***************************************************************************)
(* C1.  After loadGraph(G1) and then loadGraph(G2), without overlap, the   *)
(* statistics, every filtered graph and the stored state itself are those  *)
(* of a fresh engine that ran only loadGraph(G2): nothing of G1 survives.  *)
(***************************************************************************)
ReloadReplaces ==
    (Loaded /\ loads >= 2 /\ ~overlapped) =>
        IF RedisActive
        THEN LET fs == FreshSets(loaded)
                 fh == FreshHash(loaded)
             IN /\ rsets = fs
                /\ rhash = fh
                /\ getStatistics = getStatisticsRedis(fs)
                /\ \A f \in AllFilters :
                      Observed(getFilteredGraph(f)) = Observed(getFilteredGraphRedis(fs, fh, f))
        ELSE LET fm == FreshMem(loaded)
             IN /\ Mem = fm
                /\ getStatistics = getStatisticsMemory(fm)
                /\ \A f \in AllFilters :
                      Observed(getFilteredGraph(f)) = Observed(getFilteredGraphMemory(fm, f))

\* a second load has replaced a graph none of whose nodes is in the new graph
ReloadReplacesWitness ==
    /\ Loaded /\ loads = 2
    /\ replaced # {}
    /\ loaded.nodes # {}
    /\ replaced \cap DeclaredNames(loaded) = {}
    /\ getStatistics.totalNodes = Cardinality(loaded.nodes)

BackendsAgree ==
    Loaded =>
        LET fs == FreshSets(loaded)
            fh == FreshHash(loaded)
            fm == FreshMem(loaded)
        IN IF RedisActive
           THEN /\ \A f \in AllFilters :
                      Observed(getFilteredGraph(f)) = Observed(getFilteredGraphMemory(fm, f))
                /\ CoreStatistics(getStatistics) = CoreStatistics(getStatisticsMemory(fm))
           ELSE /\ \A f \in AllFilters :
                      Observed(getFilteredGraph(f)) = Observed(getFilteredGraphRedis(fs, fh, f))
                /\ CoreStatistics(getStatistics) = CoreStatistics(getStatisticsRedis(fs))

(***************************************************************************)
(* C6.  Every node with publicExposed = true is in the node set of the     *)
(* startsWithPublic query, whatever its edges are.                         *)
(***************************************************************************)
PublicNodesAreReturned ==
    Loaded => PublicOf(loaded) \subseteq NodeIds(getFilteredGraph(Filter(TRUE, FALSE, FALSE)))

(***************************************************************************)
(* C7.  The query without filters returns every declared node and every    *)
(* expanded edge whose two endpoints are declared nodes.                   *)
(***************************************************************************)
NoFilterReturnsWholeGraph ==
    Loaded =>
        LET r == getFilteredGraph(Filter(FALSE, FALSE, FALSE))
        IN /\ ~r.threw
           /\ NodeIds(r) = DeclaredNames(loaded)
           /\ r.links = {e \in ExpandedEdges(loaded) :
                            e[1] \in DeclaredNames(loaded) /\ e[2] \in DeclaredNames(loaded)}

(***************************************************************************)
(* C8.  The statistics count the distinct node names, the nodes with       *)
(* publicExposed = true, the nodes of a sink kind and the nodes with a     *)
(* non-empty vulnerabilities list.                                         *)
(***************************************************************************)
StatisticsCountRoles ==
    Loaded =>
        /\ getStatistics.totalNodes = Cardinality(DeclaredNames(loaded))
        /\ getStatistics.publicNodes = Cardinality(PublicOf(loaded))
        /\ getStatistics.sinkNodes = Cardinality(SinksOf(loaded))
        /\ getStatistics.vulnerableNodes = Cardinality(VulnerableOf(loaded))

(***************************************************************************)
(* C9.  The reachability set stored for a public seed is the set of node   *)
(* names at most 10 hops forward of it, the set stored for a sink seed the *)
(* set of node names at most 10 hops backward of it, the seed included.    *)
(***************************************************************************)
StoredReachabilityIsBoundedDistance ==
    (Loaded /\ RedisActive) =>
        /\ \A p \in PublicOf(loaded) :
              SMembers(rsets, "graph:reachable:public:" \o p)
                  = WithinHops(ExpandedEdges(loaded), {p}, "forward", DefaultMaxDepth)
        /\ \A k \in SinksOf(loaded) :
              SMembers(rsets, "graph:reachable:sink:" \o k)
                  = WithinHops(ExpandedEdges(loaded), {k}, "backward", DefaultMaxDepth)

(***************************************************************************)
(* C10.  The set a vulnerable seed v contributes to a query is v together  *)
(* with the nodes at most 5 hops backward and at most 5 hops forward of v. *)
(***************************************************************************)
VulnerableContribution(v) ==
    IF RedisActive THEN SMembers(rsets, "graph:reachable:vulnerable:" \o v)
    ELSE UNION {Range(r.path) : r \in MapGet(vulnerablePaths, v, {})}

VulnerableContextIsBothDirections ==
    Loaded =>
        \A v \in VulnerableOf(loaded) :
            VulnerableContribution(v)
                = {v} \cup WithinHops(ExpandedEdges(loaded), {v}, "backward", ContextMaxDepth)
                      \cup WithinHops(ExpandedEdges(loaded), {v}, "forward", ContextMaxDepth)

(***************************************************************************)
(* C2.  A query that runs while one loadGraph call is in progress returns  *)
(* what it would return over the complete previous graph or over the       *)
(* complete new graph, never something built from an empty, partial or     *)
(* mixed graph.                                                            *)
(***************************************************************************)
FreshFilteredGraph(data, f) ==
    IF RedisActive THEN getFilteredGraphRedis(FreshSets(data), FreshHash(data), f)
    ELSE getFilteredGraphMemory(FreshMem(data), f)

QueryDuringLoadSeesWholeGraph ==
    \A c \in Calls :
        (Running(c) /\ ~overlapped /\ BackendReachable /\ lastLoad \in {"none", "ok"}) =>
            \A f \in AllFilters :
                \/ Observed(getFilteredGraph(f)) = Observed(FreshFilteredGraph(loaded, f))
                \/ Observed(getFilteredGraph(f)) = Observed(FreshFilteredGraph(ldata[c], f))

(***************************************************************************)
(* C3.  When two loadGraph calls overlap, the engine state after both have *)
(* completed is the state produced by one of the two graphs loaded alone.  *)
(***************************************************************************)
OverlappingLoadsLeaveOneGraph ==
    (overlapped /\ \A c \in Calls : pc[c] = "done") =>
        \E c \in Calls :
            IF RedisActive
            THEN rsets = FreshSets(ldata[c]) /\ rhash = FreshHash(ldata[c])
            ELSE Mem = FreshMem(ldata[c])

(***************************************************************************)
(* C11.  With metadataFilters holding several pairs and no role flag, the  *)
(* seeds are the nodes that hold every requested pair (in their metadata   *)
(* or in the metadata of one of their vulnerabilities) and the node set of *)
(* the result is the union of the context sets of those seeds; a node that *)
(* holds only some of the pairs is no seed.                                *)
(***************************************************************************)
MetadataOnly(pairs) ==
    [startsWithPublic |-> FALSE, endsInSink |-> FALSE, hasVulnerability |-> FALSE,
     metadataFilters |-> [present |-> TRUE, pairs |-> pairs]]

MetadataSeeds(data, pairs) ==
    {n.name : n \in {x \in data.nodes : pairs \subseteq IndexedMetadata(x)}}

\* the context of a seed: the sets precomputed for it on Redis, on memory (which
\* precomputes nothing per pair) the seed with the nodes at most 5 hops around it
MetadataContext(seed, pairs) ==
    IF RedisActive
    THEN UNION {SMembers(rsets, "graph:reachable:meta:" \o kv[1] \o ":" \o kv[2] \o ":" \o seed) :
                   kv \in pairs}
    ELSE {seed} \cup WithinHops(ExpandedEdges(loaded), {seed}, "backward", ContextMaxDepth)
                \cup WithinHops(ExpandedEdges(loaded), {seed}, "forward", ContextMaxDepth)

MetadataPairsCombineConjunctively ==
    Loaded =>
        \A mf \in {x \in MetadataFilterChoices : Cardinality(x.pairs) >= 2} :
            NodeIds(getFilteredGraph(MetadataOnly(mf.pairs)))
                = UNION {MetadataContext(seed, mf.pairs) :
                            seed \in MetadataSeeds(loaded, mf.pairs)}

(***************************************************************************)
(* C12.  Every node that holds a pair (key, value) in its metadata or in   *)
(* the metadata of one of its vulnerabilities is in the node set of the    *)
(* query whose only filter is metadataFilters = {key: value}.              *)
(***************************************************************************)
MetadataPairSeedsItsNodes ==
    Loaded =>
        \A n \in loaded.nodes :
            \A kv \in IndexedMetadata(n) :
                n.name \in NodeIds(getFilteredGraph(MetadataOnly({kv})))

(***************************************************************************)
(* C13.  In every response of getFilteredGraph, in every state and for the *)
(* filter sets below (every combination of the role flags, a metadata      *)
(* filter alone and a metadata filter with the role flags), the source and *)
(* the target of each link are ids of nodes of that response.              *)
(***************************************************************************)
LinkFilters ==
    {f \in AllFilters : ~f.metadataFilters.present}
    \cup {MetadataOnly({<<"env", "prod">>}), MetadataOnly({<<"cwe", "79">>}),
          [startsWithPublic |-> TRUE, endsInSink |-> TRUE, hasVulnerability |-> TRUE,
           metadataFilters |-> [present |-> TRUE, pairs |-> {<<"env", "prod">>}]]}

LinksJoinReturnedNodes ==
    \A f \in LinkFilters :
        LET r == getFilteredGraph(f)
            ids == NodeIds(r)
        IN \A l \in r.links : l[1] \in ids /\ l[2] \in ids

\* a Redis response with a link, built for a node set that leaves out the target of a
\* stored edge of one of its nodes
LinksJoinReturnedNodesWitness ==
    /\ Loaded /\ RedisActive
    /\ LET r == getFilteredGraph(Filter(FALSE, TRUE, FALSE))
       IN /\ r.links # {}
          /\ \E e \in ExpandedEdges(loaded) : e[1] \in NodeIds(r) /\ e[2] \notin NodeIds(r)

(***************************************************************************)
(* C14.  After a load every stored reachability set, and so the node set   *)
(* of every filtered response, holds only names of declared nodes, also    *)
(* when edges have endpoints that are not declared.                        *)
(***************************************************************************)
StoredReachabilitySets ==
    IF RedisActive
    THEN {SMembers(rsets, k) :
             k \in {key \in RedisKeys(rsets, rhash) :
                       \E kind \in {"public", "sink", "vulnerable", "meta"}, rest \in Names :
                           \E mid \in {"", "env:prod:", "cwe:79:"} :
                               key = "graph:reachable:" \o kind \o ":" \o mid \o rest}}
    ELSE {Range(r.path) : r \in getAllPrecomputedRoutes(Mem)}

ReachabilityHoldsDeclaredNamesOnly ==
    Loaded =>
        /\ \A set \in StoredReachabilitySets : set \subseteq DeclaredNames(loaded)
        /\ \A f \in {x \in AllFilters : hasActiveFilters(x)} :
              NodeIds(getFilteredGraph(f)) \subseteq DeclaredNames(loaded)

(***************************************************************************)
(* C15.  For a graph with an edge whose from or to is not a declared node, *)
(* the load succeeds, the undeclared endpoint is traversed in both         *)
(* directions, no getFilteredGraph call throws, and an undeclared endpoint *)
(* in a response has all role flags false and empty vulnerabilities and    *)
(* metadata.                                                               *)
(***************************************************************************)
UndeclaredEndpoints(data) ==
    UNION {{e[1], e[2]} : e \in ExpandedEdges(data)} \ DeclaredNames(data)

UndeclaredEndpointsArePlaceholders ==
    (Loaded /\ UndeclaredEndpoints(loaded) # {}) =>
        /\ \A f \in AllFilters :
              LET r == getFilteredGraph(f)
              IN /\ ~r.threw
                 /\ \A n \in r.nodes :
                       n.id \in UndeclaredEndpoints(loaded) =>
                           /\ ~n.isPublic /\ ~n.isSink /\ ~n.hasVulnerability
                           /\ n.vulnerabilities = <<>>
                           /\ n.metadata = {}
        /\ \A p \in PublicOf(loaded) :
              WithinHops(ExpandedEdges(loaded), {p}, "forward", DefaultMaxDepth)
                  \subseteq NodeIds(getFilteredGraph(Filter(TRUE, FALSE, FALSE)))
        /\ \A k \in SinksOf(loaded) :
              WithinHops(ExpandedEdges(loaded), {k}, "backward", DefaultMaxDepth)
                  \subseteq NodeIds(getFilteredGraph(Filter(FALSE, TRUE, FALSE)))

(***************************************************************************)
(* C16.  A load request whose body lacks nodes or edges fails, and the     *)
(* statistics and every filtered graph are afterwards what they were       *)
(* before the request.                                                     *)
(***************************************************************************)
MalformedLoadChangesNothing ==
    [][(\E payload \in MalformedPayloads : LoadMalformed(payload)) =>
          /\ lastLoad' \in {"typeError", "rejected"}
          /\ getStatistics' = getStatistics
          /\ \A f \in AllFilters : getFilteredGraph(f)' = getFilteredGraph(f)]_vars

(***************************************************************************)
(* C17.  A loadGraph call during which a backend command failed does not   *)
(* end as a success: whenever the call that ended last ended successfully  *)
(* (and no calls overlapped), the stored graph is the complete graph of    *)
(* that call, as a fresh engine would have built it.                       *)
(***************************************************************************)
SuccessfulLoadIsComplete ==
    ((\A c \in Calls : ~Running(c)) /\ ~overlapped /\ lastLoad = "ok") =>
        IF RedisActive
        THEN rsets = FreshSets(loaded) /\ rhash = FreshHash(loaded)
        ELSE Mem = FreshMem(loaded)

(***************************************************************************)
(* C18.  The backend is chosen once, by the probe of onModuleInit: from    *)
(* then on useRedis and redis never change, every call works on the chosen *)
(* backend only, and the storageType of the statistics (whenever the call  *)
(* returns) is 'redis' if the probe succeeded and 'memory' if it failed,   *)
(* also after Redis has gone away or come back.                            *)
(***************************************************************************)
BackendChosenOnce ==
    /\ [](moduleInit =>
             /\ RedisActive <=> (probed = "up")
             /\ BackendReachable =>
                   getStatistics.storageType = IF probed = "up" THEN "redis" ELSE "memory")
    /\ [][moduleInit =>
             /\ useRedis' = useRedis /\ redis' = redis
             /\ RedisActive => UNCHANGED memVars
             /\ ~RedisActive => UNCHANGED redisVars]_vars

\* the probe failed, Redis came back afterwards, and a graph was loaded into the maps
BackendChosenOnceWitness ==
    /\ moduleInit /\ probed = "down" /\ redisUp
    /\ loads >= 1 /\ lastLoad = "ok"
    /\ DOMAIN nodes # {}
    /\ rsets = {}
    /\ getStatistics.storageType = "memory"

(***************************************************************************)
(* C19.  Reconnection is bounded with backoff: the delay before the next   *)
(* attempt never exceeds 2000 ms and never decreases from one failure to   *)
(* the next, and after a fixed number of consecutive failures (at most     *)
(* MaxRetries) no further attempt is scheduled.                            *)
(***************************************************************************)
ReconnectionIsBounded ==
    /\ conn = "wait" =>
          /\ retryDelay <= 2000
          /\ times > 1 => retryDelay >= retryStrategy(times - 1)
    /\ times >= MaxRetries => conn # "wait"

(***************************************************************************)
(* C20.  In-memory engine, startsWithPublic and endsInSink both set, as    *)
(* claimed: the node set is the node set of the startsWithPublic query     *)
(* plus the endpoints of the links of the endsInSink query whose source is *)
(* a public node, and the number of links is the number of links of the    *)
(* startsWithPublic query plus the number of those sink links.             *)
(***************************************************************************)
SinkLinksFromPublic ==
    {l \in getFilteredGraph(Filter(FALSE, TRUE, FALSE)).links : l[1] \in PublicOf(loaded)}

getSinkNodes ==
    {n.id : n \in {x \in getFilteredGraph(Filter(FALSE, TRUE, FALSE)).nodes : x.isSink}}

\* GET vulnerabilities: the hasVulnerability nodes of the hasVulnerability response
getVulnerableNodes ==
    {[node |-> n.id, vulnerabilities |-> n.vulnerabilities] :
        n \in {x \in getFilteredGraph(Filter(FALSE, FALSE, TRUE)).nodes : x.hasVulnerability}}

(***************************************************************************)
(* C21.  For every loaded graph every sink node is in the node set of the  *)
(* endsInSink query and every vulnerable node in the node set of the       *)
(* hasVulnerability query, whatever its edges are, so that the sinks and   *)
(* vulnerabilities endpoints list all of them.                             *)
(***************************************************************************)
SinksAndVulnerableNodesAreListed ==
    Loaded =>
        /\ SinksOf(loaded) \subseteq NodeIds(getFilteredGraph(Filter(FALSE, TRUE, FALSE)))
        /\ VulnerableOf(loaded) \subseteq NodeIds(getFilteredGraph(Filter(FALSE, FALSE, TRUE)))
        /\ SinksOf(loaded) \subseteq getSinkNodes
        /\ VulnerableOf(loaded) \subseteq {v.node : v \in getVulnerableNodes}

(***************************************************************************)
(* GraphController.loadGraph, after its await of loadGraph has resolved.   *)
(* getStatistics() is called without await: on the in-memory backend it    *)
(* returns the statistics object, on the Redis backend the promise of the  *)
(* async getStatisticsRedis.                                               *)
(***************************************************************************)
getStatisticsReturned ==
    IF RedisActive
    THEN [isPromise |-> TRUE, value |-> getStatistics]
    ELSE [isPromise |-> FALSE, value |-> getStatistics]

\* JSON.stringify of the response body: a Promise has no enumerable property of its own
\* and is written as the empty object
JsonStringify(v) == IF v.isPromise THEN [x \in {} |-> 0] ELSE v.value

loadGraphResponse ==
    [message |-> "Graph loaded successfully", statistics |-> JsonStringify(getStatisticsReturned)]

StatisticsFields == {"totalNodes", "totalEdges", "publicNodes", "sinkNodes", "vulnerableNodes"}

(***************************************************************************)
(* C22.  The response of the load operation carries in its statistics      *)
(* field the five statistics values of the graph just loaded, on the Redis *)
(* backend and on the in-memory backend.                                   *)
(***************************************************************************)
LoadResponseCarriesStatistics ==
    Loaded =>
        \A field \in StatisticsFields :
            /\ field \in DOMAIN loadGraphResponse.statistics
            /\ loadGraphResponse.statistics[field] = getStatistics[field]

(***************************************************************************)
(* GraphController.queryGraph.  A query parameter of GraphFilterDto is     *)
(* "undefined" when the request does not carry it, else the boolean its    *)
(* Transform produced, written "true" or "false".                          *)
(***************************************************************************)
QueryDtos ==
    [startsWithPublic : {"undefined", "true", "false"},
     endsInSink : {"undefined", "true"},
     hasVulnerability : {"undefined", "true"},
     metadataFilters : {NoMetadataFilters, [present |-> TRUE, pairs |-> {<<"env", "prod">>}]}]

\* flag || false
OrFalse(flag) == flag = "true"

queryGraph(dto) ==
    getFilteredGraph([startsWithPublic |-> OrFalse(dto.startsWithPublic),
                      endsInSink |-> OrFalse(dto.endsInSink),
                      hasVulnerability |-> OrFalse(dto.hasVulnerability),
                      metadataFilters |-> NoMetadataFilters])

(***************************************************************************)
(* C23.  The query endpoint forwards every filter it receives: its answer  *)
(* is what getFilteredGraph computes for the flags of the request (absent  *)
(* flags being false) together with the metadataFilters of the request.    *)
(***************************************************************************)
QueryForwardsEveryFilter ==
    Loaded =>
        \A dto \in QueryDtos :
            Observed(queryGraph(dto))
                = Observed(getFilteredGraph(
                      [startsWithPublic |-> dto.startsWithPublic = "true",
                       endsInSink |-> dto.endsInSink = "true",
                       hasVulnerability |-> dto.hasVulnerability = "true",
                       metadataFilters |-> dto.metadataFilters]))

(***************************************************************************)
(* C24.  Statistics are independent of reachability data: a precomputation *)
(* step (computeReachableSetsRedis, precomputePathsAsync) changes only     *)
(* reachability sets and paths, and getStatistics() after it is what it    *)
(* was after ingestion, before it.                                         *)
(***************************************************************************)
IndexPart(sets) == {p \in sets : p[1] \notin ReachabilityKeys}

PrecomputationLeavesStatistics ==
    [][(\E c \in Calls : ComputeReachableSets(c) \/ PrecomputePaths(c)) =>
          /\ getStatistics' = getStatistics
          /\ IndexPart(rsets') = IndexPart(rsets)
          /\ rhash' = rhash
          /\ UNCHANGED <<nodes, adjacencyList, reverseAdjacencyList, publicNodes, sinkNodes,
                         vulnerableNodes, nodesByKind>>]_vars

\* a Redis load has just ended whose precomputation stored reachability sets for a
\* graph with nodes and edges
PrecomputationLeavesStatisticsWitness ==
    /\ RedisActive /\ redisUp /\ lastLoad = "ok"
    /\ \E c \in Calls : pc[c] = "done"
    /\ \A c \in Calls : ~Running(c)
    /\ rsets # IndexPart(rsets)
    /\ getStatistics.totalNodes > 0
    /\ getStatistics.totalEdges > 0

(***************************************************************************)
(* The work of a query: the commands getFilteredGraphRedis sends, and the  *)
(* route elements getFilteredGraphMemory walks.                            *)
(***************************************************************************)
\* the node keys handed to SUNION
nodeKeysRedis(sets, filters) ==
    (IF filters.startsWithPublic
     THEN {"graph:reachable:public:" \o n : n \in SMembers(sets, "graph:nodes:public")}
     ELSE {})
    \cup (IF filters.endsInSink
          THEN {"graph:reachable:sink:" \o n : n \in SMembers(sets, "graph:nodes:sinks")}
          ELSE {})
    \cup (IF filters.hasVulnerability
          THEN {"graph:reachable:vulnerable:" \o n : n \in SMembers(sets, "graph:nodes:vulnerable")}
          ELSE {})
    \cup (IF filters.metadataFilters.present
          THEN UNION {{"graph:reachable:meta:" \o kv[1] \o ":" \o kv[2] \o ":" \o n :
                          n \in SMembers(sets, "graph:nodes:meta:" \o kv[1] \o ":" \o kv[2])} :
                      kv \in filters.metadataFilters.pairs}
          ELSE {})

\* a command sent to Redis: the source line that sends it, its name, the keys it reads
\* and its member argument, if any
Command(line, cmd, keys, member) ==
    [line |-> line, cmd |-> cmd, keys |-> keys, member |-> member]

\* the commands of buildGraphResponseRedis: per node id one smembers of its forward
\* edges, one hgetall and two sismember
buildGraphResponseRedisCommands(nodeIds) ==
    UNION {{Command(514, "smembers", {"graph:edges:" \o n}, ""),
            Command(528, "hgetall", {"graph:node:" \o n}, ""),
            Command(534, "sismember", {"graph:nodes:sinks"}, n),
            Command(535, "sismember", {"graph:nodes:vulnerable"}, n)} : n \in nodeIds}

getFilteredGraphRedisCommands(sets, filters) ==
    LET nodeKeys == nodeKeysRedis(sets, filters)
        nodeIds == IF hasActiveFilters(filters) THEN SUnion(sets, nodeKeys)
                   ELSE SMembers(sets, "graph:nodes:all")
    IN (IF filters.startsWithPublic
        THEN {Command(464, "smembers", {"graph:nodes:public"}, "")} ELSE {})
       \cup (IF filters.endsInSink
             THEN {Command(469, "smembers", {"graph:nodes:sinks"}, "")} ELSE {})
       \cup (IF filters.hasVulnerability
             THEN {Command(474, "smembers", {"graph:nodes:vulnerable"}, "")} ELSE {})
       \cup (IF filters.metadataFilters.present
             THEN {Command(481, "smembers", {"graph:nodes:meta:" \o kv[1] \o ":" \o kv[2]},
                          "") :
                      kv \in filters.metadataFilters.pairs}
             ELSE {})
       \cup (IF hasActiveFilters(filters)
             THEN IF nodeKeys # {} THEN {Command(491, "sunion", nodeKeys, "")} ELSE {}
             ELSE {Command(498, "smembers", {"graph:nodes:all"}, "")})
       \cup buildGraphResponseRedisCommands(nodeIds)

\* the routes handed to buildGraphResponse
finalRoutesMemory(m, filters) ==
    LET fromPublic == IF filters.startsWithPublic THEN AllRoutesOf(m.publicPaths) ELSE {}
        toSink == IF filters.endsInSink
                  THEN {r \in AllRoutesOf(m.sinkPaths) :
                           ~filters.startsWithPublic \/ r.isPublicSource}
                  ELSE {}
        throughVulnerable ==
            IF filters.hasVulnerability
            THEN {r \in AllRoutesOf(m.vulnerablePaths) :
                     /\ (~filters.startsWithPublic \/ r.isPublicSource)
                     /\ (~filters.endsInSink \/ r.isSinkTarget)}
            ELSE {}
        filteredRoutes == fromPublic \cup toSink \cup throughVulnerable
        afterMetadata ==
            IF filters.metadataFilters.present
            THEN {r \in filteredRoutes : RouteMatchesMetadata(m, r, filters.metadataFilters.pairs)}
            ELSE filteredRoutes
    IN IF hasActiveFilters(filters) THEN afterMetadata ELSE getAllPrecomputedRoutes(m)

\* the (route, index) pairs of routes.forEach(route => route.path.forEach(...)); equal
\* routes kept under several seeds are counted once here
buildGraphResponseVisits(routes) == UNION {{<<r, i>> : i \in DOMAIN r.path} : r \in routes}

\* how many times the query handles a node name while it builds nodes and links
QueryNodeSteps(filters) ==
    IF RedisActive
    THEN Cardinality({c \in getFilteredGraphRedisCommands(rsets, filters) :
                         c.line = 514})
    ELSE Cardinality(buildGraphResponseVisits(finalRoutesMemory(Mem, filters)))

\* the stored forward edges between the nodes of a node set
ForwardEdgesAmong(ids) ==
    IF RedisActive
    THEN {e \in UNION {{<<n, t>> : t \in SMembers(rsets, "graph:edges:" \o n)} : n \in ids} :
             e[2] \in ids}
    ELSE {e \in UNION {{<<n, t>> : t \in MapGet(adjacencyList, n, {})} : n \in ids} :
             e[2] \in ids}

(***************************************************************************)
(* C25.  getFilteredGraph does not traverse the graph and its work does    *)
(* not depend on the paths of the graph: it never reads reverse adjacency, *)
(* it handles every included node once (one forward-adjacency lookup per   *)
(* included node, nothing per path), and the links of the response are the *)
(* stored forward edges between the included nodes.                        *)
(***************************************************************************)
QueryWorkIsPerIncludedNode ==
    Loaded =>
        \A f \in {x \in AllFilters : ~x.metadataFilters.present} :
            LET r == getFilteredGraph(f)
            IN ~r.threw =>
                  /\ QueryNodeSteps(f) = Cardinality(NodeIds(r))
                  /\ r.links = ForwardEdgesAmong(NodeIds(r))
                  /\ RedisActive =>
                        \A c \in getFilteredGraphRedisCommands(rsets, f) :
                            \A n \in Names \cup NodeIds(r) :
                                "graph:reverse:" \o n \notin c.keys

(***************************************************************************)
(* Ingestion in batches.  A payload is given by its numbers of nodes and   *)
(* of edges.  The handler gives other requests a turn only where it awaits *)
(* something that completes in a later turn of the event loop: the         *)
(* setImmediate of yieldToEventLoop, or the reply to a Redis command.  An  *)
(* await of an async function whose body is synchronous (processNodeChunk, *)
(* processEdgeChunk) continues in the same turn; it is followed by         *)
(* yieldToEventLoop in the code.                                           *)
(***************************************************************************)
BatchSize == 100

IngestSizes == {0, 1, BatchSize, BatchSize + 1, MaxChunks * BatchSize + 1}

\* chunkArray(array, size), on lengths: the lengths of array.slice(i, i + size) for
\* i = 0, size, 2 * size, ... while i < array.length
chunkArray(length, size) ==
    [k \in 1..((length + size - 1) \div size) |->
        IF length - (k - 1) * size < size THEN length - (k - 1) * size ELSE size]

\* loadGraphMemory up to the first chunk: initializeEmptyGraph, chunkArray(data.nodes, 100)
StartIngestMemory(n, e) ==
    /\ moduleInit /\ ~RedisActive
    /\ ingest.stage = "idle"
    /\ ingest' = [IngestIdle EXCEPT !.stage = "nodes", !.nodeChunks = chunkArray(n, BatchSize),
                                    !.nodeCount = n, !.edgeCount = e]
    /\ UNCHANGED <<moduleInit, useRedis, redis, redisVars, memVars, callVars, histVars, probed,
                   lastLoad, envVars, trav>>

\* await this.processNodeChunk(chunk): the whole chunk in one turn
ProcessNodeChunkStep ==
    /\ ingest.stage = "nodes"
    /\ ingest.nodeChunks # <<>>
    /\ ingest' = [ingest EXCEPT !.stage = "nodeYield",
                                !.nodesRun = @ + Head(ingest.nodeChunks),
                                !.nodeChunks = Tail(@)]
    /\ UNCHANGED <<moduleInit, useRedis, redis, redisVars, memVars, callVars, histVars, probed,
                   lastLoad, envVars, trav>>

\* the node loop is over: chunkArray(data.edges, 100)
StartEdgeChunks ==
    /\ ingest.stage = "nodes"
    /\ ingest.nodeChunks = <<>>
    /\ ingest' = [ingest EXCEPT !.stage = "edges",
                                !.edgeChunks = chunkArray(ingest.edgeCount, BatchSize)]
    /\ UNCHANGED <<moduleInit, useRedis, redis, redisVars, memVars, callVars, histVars, probed,
                   lastLoad, envVars, trav>>

\* await this.processEdgeChunk(chunk)
ProcessEdgeChunkStep ==
    /\ ingest.stage = "edges"
    /\ ingest.edgeChunks # <<>>
    /\ ingest' = [ingest EXCEPT !.stage = "edgeYield",
                                !.edgesRun = @ + Head(ingest.edgeChunks),
                                !.edgeChunks = Tail(@)]
    /\ UNCHANGED <<moduleInit, useRedis, redis, redisVars, memVars, callVars, histVars, probed,
                   lastLoad, envVars, trav>>

\* await this.yieldToEventLoop() after a chunk: other requests get their turn
YieldToEventLoop ==
    /\ ingest.stage \in {"nodeYield", "edgeYield"}
    /\ ingest' = [ingest EXCEPT !.stage = IF @ = "nodeYield" THEN "nodes" ELSE "edges",
                                !.nodesRun = 0, !.edgesRun = 0]
    /\ UNCHANGED <<moduleInit, useRedis, redis, redisVars, memVars, callVars, histVars, probed,
                   lastLoad, envVars, trav>>

\* the edge loop is over: preprocessGraphAsync returns
FinishIngestMemory ==
    /\ ingest.stage = "edges"
    /\ ingest.edgeChunks = <<>>
    /\ ingest' = [ingest EXCEPT !.stage = "done"]
    /\ UNCHANGED <<moduleInit, useRedis, redis, redisVars, memVars, callVars, histVars, probed,
                   lastLoad, envVars, trav>>

\* loadGraphRedis up to await this.redis.keys('graph:*')
StartIngestRedis(n, e) ==
    /\ moduleInit /\ RedisActive /\ redisUp
    /\ ingest.stage = "idle"
    /\ ingest' = [IngestIdle EXCEPT !.stage = "keys", !.nodeCount = n, !.edgeCount = e]
    /\ UNCHANGED <<moduleInit, useRedis, redis, redisVars, memVars, callVars, histVars, probed,
                   lastLoad, envVars, trav>>

\* data.nodes.forEach(...) and data.edges.forEach(...): every node and every edge of the
\* payload is turned into pipeline commands before the next await
QueuePipelineCommands ==
    /\ ingest.stage = "keys"
    /\ ingest' = [ingest EXCEPT !.stage = "queued",
                                !.nodesRun = @ + ingest.nodeCount,
                                !.edgesRun = @ + ingest.edgeCount]
    /\ UNCHANGED <<moduleInit, useRedis, redis, redisVars, memVars, callVars, histVars, probed,
                   lastLoad, envVars, trav>>

\* await pipeline.exec(): the next turn of the event loop
AwaitPipelineExec ==
    /\ ingest.stage = "queued"
    /\ ingest' = [ingest EXCEPT !.stage = "done", !.nodesRun = 0, !.edgesRun = 0]
    /\ UNCHANGED <<moduleInit, useRedis, redis, redisVars, memVars, callVars, histVars, probed,
                   lastLoad, envVars, trav>>

NextIngest ==
    \/ OnModuleInit(redisUp)
    \/ \E n \in IngestSizes, e \in IngestSizes : StartIngestMemory(n, e)
    \/ ProcessNodeChunkStep
    \/ StartEdgeChunks
    \/ ProcessEdgeChunkStep
    \/ YieldToEventLoop
    \/ FinishIngestMemory
    \/ \E n \in IngestSizes, e \in IngestSizes : StartIngestRedis(n, e)
    \/ QueuePipelineCommands
    \/ AwaitPipelineExec

SpecIngest == Init /\ [][NextIngest]_vars

(***************************************************************************)
(* C26.  During ingestion, on whichever backend is active, at most 100     *)
(* nodes and at most 100 edges are processed between two consecutive       *)
(* yields to the event loop.                                               *)
(***************************************************************************)
AtMostOneBatchBetweenYields ==
    /\ ingest.nodesRun <= BatchSize
    /\ ingest.edgesRun <= BatchSize

(***************************************************************************)
(* One traversal of the precomputation, step by step: the while loop of    *)
(* bfsRedis over the Redis key space, and the calls of                     *)
(* explorePathsRecursive over the in-memory adjacency maps.  Redis answers *)
(* every command of the traversal.                                         *)
(***************************************************************************)
PlainNode(n) ==
    MkNode(n, [kind |-> "service", publicExposed |-> FALSE, vulnerabilities |-> <<>>,
               metadata |-> {}])

\* every name declared, up to MaxEdges edges: cycles, self-loops, and edges to the node
\* named all
TraverseGraphs ==
    {[nodes |-> {PlainNode(n) : n \in Names}, edges |-> E] :
        E \in SubsetsUpTo({[from |-> f, to |-> <<t>>] : f \in Names, t \in Names}, MaxEdges)}

\* the calls made by the precomputation: default maxDepth, and 5 for context
TraverseDepths == {DefaultMaxDepth, ContextMaxDepth}

TraverseSets == PipelineExecSets({}, {}, trav.data)

TraverseMem == preprocessGraphAsync(EmptyEngine, trav.data)

\* one iteration of the while loop, pushing every neighbour whether visited or not
bfsIterationEveryNeighbor(sets, visited, queue, direction, maxDepth) ==
    LET node  == queue[1][1]
        depth == queue[1][2]
        neighbors == IF direction = "forward"
                     THEN SMembers(sets, "graph:edges:" \o node)
                     ELSE SMembers(sets, "graph:reverse:" \o node)
        pushed == [i \in 1..Cardinality(neighbors) |-> <<SetToSeq(neighbors)[i], depth + 1>>]
    IN IF depth >= maxDepth
       THEN [visited |-> visited, queue |-> Tail(queue), pushed |-> <<>>]
       ELSE [visited |-> visited \cup neighbors, queue |-> Tail(queue) \o pushed,
             pushed |-> pushed]

\* one iteration of the while loop of bfsRedis: queue.shift(), the depth test, smembers,
\* and the push of every neighbour that is not in visited
bfsIteration(sets, visited, queue, direction, maxDepth) ==
    LET node  == queue[1][1]
        depth == queue[1][2]
        neighbors == IF direction = "forward"
                     THEN SMembers(sets, "graph:edges:" \o node)
                     ELSE SMembers(sets, "graph:reverse:" \o node)
        fresh == neighbors \ visited
        pushed == [i \in 1..Cardinality(fresh) |-> <<SetToSeq(fresh)[i], depth + 1>>]
    IN IF depth >= maxDepth
       THEN [visited |-> visited, queue |-> Tail(queue), pushed |-> <<>>]
       ELSE [visited |-> visited \cup fresh, queue |-> Tail(queue) \o pushed,
             pushed |-> pushed]

StartBfs(data, startNode, direction, maxDepth) ==
    /\ moduleInit /\ RedisActive /\ redisUp
    /\ trav.mode = "idle"
    /\ trav' = [TraverseIdle EXCEPT !.mode = "bfs", !.data = data, !.direction = direction,
                                    !.maxDepth = maxDepth, !.visited = {startNode},
                                    !.queue = <<<<startNode, 0>>>>,
                                    !.enqueued = <<startNode>>]
    /\ UNCHANGED <<moduleInit, useRedis, redis, redisVars, memVars, callVars, histVars, probed,
                   lastLoad, envVars, ingest>>

BfsStep ==
    /\ trav.mode = "bfs"
    /\ trav.queue # <<>>
    /\ LET it == bfsIteration(TraverseSets, trav.visited, trav.queue, trav.direction,
                              trav.maxDepth)
       IN trav' = [trav EXCEPT !.visited = it.visited, !.queue = it.queue,
                               !.enqueued = @ \o [i \in DOMAIN it.pushed |-> it.pushed[i][1]]]
    /\ UNCHANGED <<moduleInit, useRedis, redis, redisVars, memVars, callVars, histVars, probed,
                   lastLoad, envVars, ingest>>

\* the queue is empty: return visited
BfsReturn ==
    /\ trav.mode = "bfs"
    /\ trav.queue = <<>>
    /\ trav' = [trav EXCEPT !.mode = "done"]
    /\ UNCHANGED <<moduleInit, useRedis, redis, redisVars, memVars, callVars, histVars, probed,
                   lastLoad, envVars, ingest>>

\* a call of explorePathsRecursive: its arguments, whether it has passed the depth test,
\* and the neighbours it has still to look at
Frame(currentNode, currentPath, visited, depth) ==
    [currentNode |-> currentNode, currentPath |-> currentPath, visited |-> visited,
     depth |-> depth, entered |-> FALSE, pending |-> <<>>]

Top == trav.stack[Len(trav.stack)]

Pop == SubSeq(trav.stack, 1, Len(trav.stack) - 1)

\* computePathsFromNodeAsync: the first call, with an empty visited set
StartExplore(data, startNode, direction, maxDepth) ==
    /\ moduleInit /\ ~RedisActive
    /\ trav.mode = "idle"
    /\ trav' = [TraverseIdle EXCEPT !.mode = "explore", !.data = data,
                                    !.direction = direction, !.maxDepth = maxDepth,
                                    !.stack = <<Frame(startNode, <<startNode>>, {}, 0)>>]
    /\ UNCHANGED <<moduleInit, useRedis, redis, redisVars, memVars, callVars, histVars, probed,
                   lastLoad, envVars, ingest>>

\* if (depth >= maxDepth) return; visited.add(currentNode); read the neighbours
ExploreEnter ==
    /\ trav.mode = "explore"
    /\ trav.stack # <<>>
    /\ ~Top.entered
    /\ IF Top.depth >= trav.maxDepth
       THEN trav' = [trav EXCEPT !.stack = Pop,
                                 !.mode = IF Len(trav.stack) = 1 THEN "done" ELSE @]
       ELSE LET neighbors == IF trav.direction = "forward"
                             THEN MapGet(TraverseMem.adjacencyList, Top.currentNode, {})
                             ELSE MapGet(TraverseMem.reverseAdjacencyList, Top.currentNode, {})
            IN trav' = [trav EXCEPT
                          !.stack[Len(trav.stack)] =
                              [Top EXCEPT !.entered = TRUE,
                                          !.visited = @ \cup {Top.currentNode},
                                          !.pending = SetToSeq(neighbors)]]
    /\ UNCHANGED <<moduleInit, useRedis, redis, redisVars, memVars, callVars, histVars, probed,
                   lastLoad, envVars, ingest>>

\* the callback for one neighbour: if it is not in visited, push the route and call
\* explorePathsRecursive with a copy of visited
ExploreNeighbor ==
    /\ trav.mode = "explore"
    /\ trav.stack # <<>>
    /\ Top.entered
    /\ Top.pending # <<>>
    /\ LET neighbor == Head(Top.pending)
           newPath == IF trav.direction = "forward"
                      THEN Append(Top.currentPath, neighbor)
                      ELSE <<neighbor>> \o Top.currentPath
           rest == [trav.stack EXCEPT ![Len(trav.stack)].pending = Tail(@)]
       IN IF neighbor \in Top.visited
          THEN trav' = [trav EXCEPT !.stack = rest]
          ELSE trav' = [trav EXCEPT
                          !.routes = @ \cup {newPath},
                          !.stack = Append(rest, Frame(neighbor, newPath, Top.visited,
                                                       Top.depth + 1))]
    /\ UNCHANGED <<moduleInit, useRedis, redis, redisVars, memVars, callVars, histVars, probed,
                   lastLoad, envVars, ingest>>

\* every neighbour has been looked at: the call returns
ExploreReturn ==
    /\ trav.mode = "explore"
    /\ trav.stack # <<>>
    /\ Top.entered
    /\ Top.pending = <<>>
    /\ trav' = [trav EXCEPT !.stack = Pop, !.mode = IF Len(trav.stack) = 1 THEN "done" ELSE @]
    /\ UNCHANGED <<moduleInit, useRedis, redis, redisVars, memVars, callVars, histVars, probed,
                   lastLoad, envVars, ingest>>

TraverseStep == BfsStep \/ BfsReturn \/ ExploreEnter \/ ExploreNeighbor \/ ExploreReturn

NextTraverse ==
    \/ OnModuleInit(redisUp)
    \/ \E data \in TraverseGraphs, startNode \in Names, direction \in {"forward", "backward"},
          maxDepth \in TraverseDepths : StartBfs(data, startNode, direction, maxDepth)
    \/ BfsStep
    \/ BfsReturn
    \/ \E data \in TraverseGraphs, startNode \in Names, direction \in {"forward", "backward"},
          maxDepth \in TraverseDepths : StartExplore(data, startNode, direction, maxDepth)
    \/ ExploreEnter
    \/ ExploreNeighbor
    \/ ExploreReturn

\* the continuation of an await whose promise is resolved is run by the event loop
SpecTraverse == Init /\ [][NextTraverse]_vars /\ WF_vars(TraverseStep)

(***************************************************************************)
(* C27.  For every graph, with cycles and self-loops, a traversal of the   *)
(* precomputation terminates: the Redis BFS enqueues each node at most     *)
(* once, and the in-memory recursion follows only simple paths of at most  *)
(* maxDepth edges.                                                         *)
(***************************************************************************)
IsSimple(path) == \A i, j \in DOMAIN path : path[i] = path[j] => i = j

TraversalTerminates ==
    /\ [](/\ IsSimple(trav.enqueued)
          /\ \A i \in DOMAIN trav.stack :
                /\ IsSimple(trav.stack[i].currentPath)
                /\ Len(trav.stack[i].currentPath) - 1 <= trav.maxDepth
          /\ \A path \in trav.routes : IsSimple(path) /\ Len(path) - 1 <= trav.maxDepth)
    /\ (trav.mode \in {"bfs", "explore"}) ~> (trav.mode = "done")

\* a BFS has ended on a graph with a cycle through its start node, every node of the
\* cycle enqueued
TraversalTerminatesWitness ==
    /\ trav.mode = "done"
    /\ trav.enqueued # <<>>
    /\ LET start == trav.enqueued[1]
       IN \E n \in Names \ {start} :
             /\ <<start, n>> \in ExpandedEdges(trav.data)
             /\ <<n, start>> \in ExpandedEdges(trav.data)
             /\ n \in Range(trav.enqueued)

(***************************************************************************)
(* C28.  getStatistics().totalEdges is the number of distinct expanded     *)
(* edges (from, target) of the input, edges with an undeclared endpoint    *)
(* included, and the Redis and in-memory backends report the same number.  *)
(***************************************************************************)
TotalEdgesCountsExpandedEdges ==
    Loaded =>
        /\ getStatistics.totalEdges = Cardinality(ExpandedEdges(loaded))
        /\ getStatisticsRedis(FreshSets(loaded)).totalEdges
               = getStatisticsMemory(FreshMem(loaded)).totalEdges

(***************************************************************************)
(* C29.  On the Redis backend the derived key spaces never alias: for any  *)
(* node names and kinds, after a load the public index holds exactly the   *)
(* nodes with publicExposed = true, the sink index exactly the nodes of a  *)
(* sink kind, the all-nodes set exactly the declared names and the         *)
(* all-edges set exactly one from->to entry per distinct expanded edge.    *)
(***************************************************************************)
KeySpacesDoNotAlias ==
    (Loaded /\ RedisActive) =>
        /\ SMembers(rsets, "graph:nodes:public") = PublicOf(loaded)
        /\ SMembers(rsets, "graph:nodes:sinks") = SinksOf(loaded)
        /\ SMembers(rsets, "graph:nodes:all") = DeclaredNames(loaded)
        /\ SMembers(rsets, "graph:edges:all")
               = {e[1] \o "->" \o e[2] : e \in ExpandedEdges(loaded)}

(***************************************************************************)
(* C30.  A getFilteredGraph call with no true role flag and a              *)
(* metadataFilters mapping that is present but empty has no active filter  *)
(* and returns what getFilteredGraph({}) returns, the whole graph.         *)
(***************************************************************************)
EmptyMetadataFilters == [present |-> TRUE, pairs |-> {}]

EmptyMetadataFiltersAreInactive ==
    Loaded =>
        LET filters == [startsWithPublic |-> FALSE, endsInSink |-> FALSE,
                        hasVulnerability |-> FALSE,
                        metadataFilters |-> EmptyMetadataFilters]
        IN  /\ ~hasActiveFilters(filters)
            /\ Observed(getFilteredGraph(filters))
                   = Observed(getFilteredGraph(Filter(FALSE, FALSE, FALSE)))

====
